---- MODULE Spec2Model ----
(***************************************************************************)
(* Model of package/syllabifiers/ipa.py: the overlapping syllable matcher, *)
(* the memoized word syllabifier, the line processor and the parallel      *)
(* corpus pipeline.                                                        *)
(*                                                                         *)
(* A string is a sequence of symbols.  An ASCII character stands for       *)
(* itself; any other character is written by its code point, "u025b" for   *)
(* U+025B, so that every symbol of the IPA inventories is one element.     *)
(***************************************************************************)
EXTENDS Naturals, Sequences, FiniteSets, TLC

VARIABLES
    \* the process that calls syllabify and syllabify_line
    cache,      \* lru_cache of syllabify: key -> returned string
    nConvert,   \* number of ipa_converter invocations so far
    nMatch,     \* number of findall invocations so far
    call,       \* the last call of syllabify or syllabify_line and its outcome
    nCalls,     \* number of calls made so far
    returned    \* history: arguments -> string first returned by a call given them

wordVars == <<cache, nConvert, nMatch, call, nCalls, returned>>

VARIABLES
    \* a run of syllabify_corpus
    numcores,   \* size of the pool
    chunksize,  \* lines per sub-chunk
    corpus,     \* the lines of the corpus file, in order
    pc,         \* where the generator is: "idle", "reading", "yielding",
                \* "done" (corpus exhausted) or "failed" (exception raised)
    nRead,      \* lines taken from the corpus stream so far
    batch,      \* _chunk: the outer batch being read or processed
    tasks,      \* the sub-chunks of the batch handed to pool.imap
    workers,    \* worker -> index of the sub-chunk it holds, 0 when idle
    wcache,     \* worker -> the lru_cache of syllabify in that process
    cur,        \* index of the sub-chunk whose results are being yielded
    off,        \* results of that sub-chunk already yielded
    out,        \* the results yielded to the consumer, in order
    outfile,    \* the lines syllabify_corpus has written to the event file
    outOfOrder, \* history: a sub-chunk ended before an earlier one had
    crashed     \* history: a worker died holding a sub-chunk

pipeVars == <<numcores, chunksize, corpus, pc, nRead, batch, tasks, workers,
              wcache, cur, off, out, outfile, outOfOrder, crashed>>

vars == <<wordVars, pipeVars>>

-----------------------------------------------------------------------------
(* Bounds *)
MaxLen == 4         \* longest phonemic string drawn over an inventory sample
MaxPairs == 3       \* most consonant+vowel pairs in a drawn CV string
MaxCalls == 3       \* calls of syllabify in one behaviour of the cache model
MaxLineLen == 4     \* longest line handed to syllabify_line
MaxCores == 2       \* largest pool
MaxChunk == 2       \* largest chunksize
MaxLines == 4       \* longest corpus

-----------------------------------------------------------------------------
(* Sequence helpers *)

Range(f) == {f[i] : i \in DOMAIN f}

\* All sequences over S of length at most n.
SeqsUpTo(S, n) == UNION {[1..k -> S] : k \in 0..n}

\* s[from+1 .. to], counting consumed characters as Python slices do.
Slice(s, from, to) == SubSeq(s, from + 1, to)

\* str.join: the items of a list with sep between consecutive items.
RECURSIVE Join(_, _)
Join(items, sep) ==
    IF items = <<>> THEN <<>>
    ELSE IF Len(items) = 1 THEN items[1]
    ELSE items[1] \o sep \o Join(Tail(items), sep)

\* d occurs in s right after the first q characters.
StartsAt(d, s, q) ==
    /\ q + Len(d) <= Len(s)
    /\ \A k \in 1..Len(d) : s[q + k] = d[k]

\* d occurs in s ending exactly at the first p characters.
EndsAt(d, s, p) ==
    /\ p >= Len(d)
    /\ \A k \in 1..Len(d) : s[p - Len(d) + k] = d[k]

\* str.replace(old, new): leftmost non-overlapping occurrences, left to right.
RECURSIVE Replace(_, _, _)
Replace(s, old, new) ==
    IF s = <<>> THEN <<>>
    ELSE IF StartsAt(old, s, 0)
         THEN new \o Replace(Slice(s, Len(old), Len(s)), old, new)
         ELSE <<s[1]>> \o Replace(Tail(s), old, new)

-----------------------------------------------------------------------------
(* Transcription *)

\* epitran's transliterate is an external collaborator; it is stood in for
\* by a transcriber that maps each symbol to itself.
transliterate(sequence) == sequence

english_to_ipa(sequence) ==
    Replace(transliterate(sequence), <<"u0279", "u0329">>, <<"u0259", "u0279">>)

polish_to_ipa(sequence) == transliterate(sequence)

\* The converter a caller passes to syllabify, by name.
ipa_converter(name, word) ==
    CASE name = "english_to_ipa" -> english_to_ipa(word)
      [] name = "polish_to_ipa"  -> polish_to_ipa(word)
      [] OTHER                   -> transliterate(word)

-----------------------------------------------------------------------------
(* Compiled patterns.  A pattern is kept as the three pieces interpolated  *)
(* into the two regular expressions: the vowel class, the ordered          *)
(* alternatives of multi-character nuclei, and the consonant class.        *)

regex_en_ipa ==
    [ vowels      |-> {"u00e6", "u0251", "u0259", "u025b", "i", "u026a",
                       "u0254", "u", "u028a", "u028c"},
      diphtongues |-> << <<"a", "j">>, <<"a", "w">>, <<"e", "j">>,
                         <<"o", "j">>, <<"o", "w">> >>,
      consonants  |-> {"u03b8", "w", "l", "m", "v", "h", "p", "u0261",
                       "u014b", "s", "z", "b", "k", "u0283", "u0279", "d",
                       "n", "u0292", "j", "t", "u00f0", "f", "u0361"} ]

\* The Polish consonant class is written [consonants|special_consonants]:
\* inside the brackets the bar and every character of the clusters are
\* members of the class.
regex_pol_ipa ==
    [ vowels      |-> {"a", "u025b", "i", "u0268", "u0254", "u"},
      diphtongues |-> << <<"u025b", "u0303">>, <<"u0254", "u0303">> >>,
      consonants  |-> {"u0255", "u0291", "u0290", "u0263", "u0272", "u0282",
                       "x", "w", "l", "m", "v", "p", "u0261", "u014b", "s",
                       "z", "b", "k", "d", "r", "n", "j", "t", "f"}
                      \cup {"|"}
                      \cup {"d", "u0361", "z", "u0291", "u0290", "t",
                            "u0255", "s", "u0282", "u0261", "u02b2", "k"} ]

\* The pattern builder of regex_en_ipa applied to the inventory of the
\* documented example: vowels a e i o u, consonants p t k m n.
regex_example ==
    [ vowels      |-> {"a", "e", "i", "o", "u"},
      diphtongues |-> regex_en_ipa.diphtongues,
      consonants  |-> {"p", "t", "k", "m", "n"} ]

syllable_pattern(name) ==
    CASE name = "regex_en_ipa"  -> regex_en_ipa
      [] name = "regex_pol_ipa" -> regex_pol_ipa
      [] OTHER                  -> regex_example

-----------------------------------------------------------------------------
(* The regular expressions, by what the matcher does.  A position p is the *)
(* number of characters before it, 0..Len(s).                              *)

\* "$" without MULTILINE: the end of the string, or just before a newline
\* that is the last character.
AtEnd(s, q) ==
    \/ q = Len(s)
    \/ q = Len(s) - 1 /\ s[Len(s)] = "\n"

\* The look-behind without its "^" alternative: no syllable may start at
\* the beginning of the word.
LookBehind_no_start(P, s, p) ==
    \/ p >= 1 /\ s[p] \in P.vowels
    \/ \E a \in 1..Len(P.diphtongues) : EndsAt(P.diphtongues[a], s, p)

\* (?<=[vowels]|diphtongues|^)
LookBehind(P, s, p) ==
    \/ p >= 1 /\ s[p] \in P.vowels
    \/ \E a \in 1..Len(P.diphtongues) : EndsAt(P.diphtongues[a], s, p)
    \/ p = 0

\* The closing group without its "$" alternative: no syllable may end at
\* the end of the word.
LookAhead_no_end(P, s, q) ==
    \/ q < Len(s) /\ s[q + 1] \in P.vowels
    \/ \E a \in 1..Len(P.diphtongues) : StartsAt(P.diphtongues[a], s, q)

\* (?:[vowels]|diphtongues|$) at the end of the look-ahead
LookAhead(P, s, q) ==
    \/ q < Len(s) /\ s[q + 1] \in P.vowels
    \/ \E a \in 1..Len(P.diphtongues) : StartsAt(P.diphtongues[a], s, q)
    \/ AtEnd(s, q)

\* Length of the longest run of class members starting after q characters.
RECURSIVE ConsRun(_, _, _)
ConsRun(P, s, q) ==
    IF q < Len(s) /\ s[q + 1] \in P.consonants
    THEN 1 + ConsRun(P, s, q + 1)
    ELSE 0

\* (?:[vowels]|diphtongues): alternative 0 is the vowel class, alternative
\* a >= 1 the a-th diphthong.  The length matched, or 0 when it fails.
NucleusLen(P, s, q, a) ==
    IF a = 0
    THEN IF q < Len(s) /\ s[q + 1] \in P.vowels THEN 1 ELSE 0
    ELSE IF StartsAt(P.diphtongues[a], s, q) THEN Len(P.diphtongues[a]) ELSE 0

\* Every way ([consonants]* nucleus [consonants]*) followed by the closing
\* look-ahead can match at p: <<k1, a, k2>> are the length of the leading
\* run, the nucleus alternative and the length of the trailing run.
Candidates(P, s, p) ==
    { t \in (0..ConsRun(P, s, p)) \X (0..Len(P.diphtongues)) \X (0..Len(s)) :
        LET n == NucleusLen(P, s, p + t[1], t[2])
            q == p + t[1] + n
        IN  /\ n > 0
            /\ t[3] <= ConsRun(P, s, q)
            /\ LookAhead(P, s, q + t[3]) }

\* The order a backtracking matcher tries them in: greedy leading run,
\* then the alternatives left to right, then greedy trailing run.
TriedBefore(t, u) ==
    \/ t[1] > u[1]
    \/ t[1] = u[1] /\ t[2] < u[2]
    \/ t[1] = u[1] /\ t[2] = u[2] /\ t[3] >= u[3]

\* Group 1 of the zero-width match of pattern_syllable at p, as a
\* one-element list, or the empty list when there is no match at p.
MatchAt(P, s, p) ==
    LET cands == Candidates(P, s, p)
    IN  IF ~LookBehind(P, s, p) \/ cands = {}
        THEN <<>>
        ELSE LET t == CHOOSE c \in cands : \A u \in cands : TriedBefore(c, u)
                 n == NucleusLen(P, s, p + t[1], t[2])
             IN  <<Slice(s, p, p + t[1] + n + t[3])>>

\* regular_pattern.findall(string): the look-ahead consumes nothing, so a
\* match is looked for at every position and group 1 is collected.
RECURSIVE FindSyllablesFrom(_, _, _)
FindSyllablesFrom(P, s, p) ==
    IF p > Len(s) THEN <<>>
    ELSE MatchAt(P, s, p) \o FindSyllablesFrom(P, s, p + 1)

findall_syllables(P, s) == FindSyllablesFrom(P, s, 0)

\* The consonant pattern without its "+": a single consonant, anchored.
findall_one_consonant(P, s) ==
    IF ConsRun(P, s, 0) >= 1 /\ AtEnd(s, 1) THEN <<Slice(s, 0, 1)>> ELSE <<>>

\* consonant_pattern.findall(string): (?<=^)(?:[consonants])+(?:$) can only
\* match at position 0; the run is greedy and gives back until "$" holds.
findall_consonants(P, s) ==
    LET ok == {k \in 1..ConsRun(P, s, 0) : AtEnd(s, k)}
    IN  IF ok = {} THEN <<>>
        ELSE <<Slice(s, 0, CHOOSE k \in ok : \A j \in ok : k >= j)>>

-----------------------------------------------------------------------------
(* syllabify, without its cache: the body of the decorated function.       *)

syllabify_body(word, converter, pattern, add_boundaries) ==
    LET P == syllable_pattern(pattern)
        string == ipa_converter(converter, word)
        syllable_matches == findall_syllables(P, string)
        syllables == IF syllable_matches # <<>>
                     THEN Join(syllable_matches, <<"_">>)
                     ELSE Join(findall_consonants(P, string), <<"_">>)
    IN  IF add_boundaries THEN <<"#">> \o syllables \o <<"#">> ELSE syllables

-----------------------------------------------------------------------------
(* The memoized syllabify.  The wrapper keys the cache on the call as it   *)
(* is written, positional and keyword arguments apart and defaults not     *)
(* filled in; a converter that raises leaves the cache as it was.          *)

\* Words the transcriber cannot transcribe: transliterate raises on them.
Untranscribable == { <<"q">> }

converter_raises(converter, word) == word \in Untranscribable

\* The ways a call of syllabify is written: all four arguments by
\* position, all four by keyword (as syllabify_line writes it), or three by
\* position with add_boundaries left to its default of True.
CallForms == {"positional", "keyword", "default"}

\* The key lru_cache makes of a call: the positional arguments, then the
\* keyword arguments behind a marker; an argument left out is not in it.
Key(form, word, converter, pattern, add_boundaries) ==
    IF form = "default" THEN <<form, word, converter, pattern>>
    ELSE <<form, word, converter, pattern, add_boundaries>>

\* What the lru_cache wrapper does with the call: a hit returns the stored
\* string, a miss runs the body and stores what it returns.
lru_cache_hit(c, key) == key \in DOMAIN c

\* One call of syllabify on cache c: whether it raised, the string returned,
\* the cache afterwards, and the converter and findall invocations it made.
syllabify(c, form, word, converter, pattern, add_boundaries) ==
    LET key == Key(form, word, converter, pattern, add_boundaries)
        P == syllable_pattern(pattern)
    IN  IF lru_cache_hit(c, key)
        THEN [raised |-> FALSE, value |-> c[key], cache |-> c,
              hit |-> TRUE, converts |-> 0, matches |-> 0]
        ELSE IF converter_raises(converter, word)
        THEN [raised |-> TRUE, value |-> <<>>, cache |-> c,
              hit |-> FALSE, converts |-> 1, matches |-> 0]
        ELSE LET v == syllabify_body(word, converter, pattern, add_boundaries)
                 string == ipa_converter(converter, word)
             IN  [raised |-> FALSE, value |-> v,
                  cache |-> (key :> v) @@ c,
                  hit |-> FALSE, converts |-> 1,
                  matches |-> IF findall_syllables(P, string) # <<>>
                              THEN 1 ELSE 2]

-----------------------------------------------------------------------------
(* Lines *)

\* The characters str.strip removes: those str.isspace holds of.
Whitespace ==
    {" ", "\t", "\n", "\r", "\f", "u000b", "u001c", "u001d", "u001e",
     "u001f", "u0085", "u00a0", "u1680", "u2000", "u2001", "u2002", "u2003",
     "u2004", "u2005", "u2006", "u2007", "u2008", "u2009", "u200a", "u2028",
     "u2029", "u202f", "u205f", "u3000"}

LowerCase == <<"a", "b", "c", "d", "e", "f", "g", "h", "i", "j", "k", "l",
               "m", "n", "o", "p", "q", "r", "s", "t", "u", "v", "w", "x",
               "y", "z">>
UpperCase == <<"A", "B", "C", "D", "E", "F", "G", "H", "I", "J", "K", "L",
               "M", "N", "O", "P", "Q", "R", "S", "T", "U", "V", "W", "X",
               "Y", "Z">>

\* ENGLISH: the lowercase letters followed by their uppercase forms.
ENGLISH == LowerCase \o UpperCase

\* The letters of POLISH, in its order, and their str.upper forms.
PolishLower ==
    <<"a", "u0105", "b", "c", "u0107", "d", "e", "u0119", "f", "g", "h", "i",
      "j", "k", "l", "u0142", "m", "n", "u0144", "o", "u00f3", "p", "r", "s",
      "u015b", "t", "u", "w", "y", "z", "u017a", "u017c", "q", "v", "x">>
PolishUpper ==
    <<"A", "u0104", "B", "C", "u0106", "D", "E", "u0118", "F", "G", "H", "I",
      "J", "K", "L", "u0141", "M", "N", "u0143", "O", "u00d3", "P", "R", "S",
      "u015a", "T", "U", "W", "Y", "Z", "u0179", "u017b", "Q", "V", "X">>

\* POLISH: the lowercase letters followed by their uppercase forms.
POLISH == PolishLower \o PolishUpper

\* str.lower on one character of the two alphabets of the module; any other
\* character of the inputs drawn here is one str.lower leaves as it is.
Lower(ch) ==
    IF \E i \in 1..Len(UpperCase) : UpperCase[i] = ch
    THEN LowerCase[CHOOSE i \in 1..Len(UpperCase) : UpperCase[i] = ch]
    ELSE IF \E i \in 1..Len(PolishUpper) : PolishUpper[i] = ch
    THEN PolishLower[CHOOSE i \in 1..Len(PolishUpper) : PolishUpper[i] = ch]
    ELSE ch

\* The pattern of disallowed characters, by name: a negated character
\* class, given by the characters it lets through.
not_symbol_allowed(name) ==
    IF name = "[^a-z ]" THEN Range(LowerCase) \cup {" "}
    ELSE IF name = "[^POLISH ]" THEN Range(POLISH) \cup {" "}
    ELSE Range(ENGLISH) \cup {" "}

\* not_symbol_pattern.sub(" ", line)
sub_space(name, line) ==
    [i \in 1..Len(line) |->
        IF line[i] \in not_symbol_allowed(name) THEN line[i] ELSE " "]

RECURSIVE LStrip(_)
LStrip(s) == IF s # <<>> /\ s[1] \in Whitespace THEN LStrip(Tail(s)) ELSE s

RECURSIVE RStrip(_)
RStrip(s) ==
    IF s # <<>> /\ s[Len(s)] \in Whitespace
    THEN RStrip(SubSeq(s, 1, Len(s) - 1))
    ELSE s

Strip(s) == RStrip(LStrip(s))

\* str.split(" "): the pieces between single spaces, empty pieces included.
RECURSIVE SplitFrom(_, _)
SplitFrom(s, piece) ==
    IF s = <<>> THEN <<piece>>
    ELSE IF s[1] = " " THEN <<piece>> \o SplitFrom(Tail(s), <<>>)
    ELSE SplitFrom(Tail(s), Append(piece, s[1]))

Split(s) == SplitFrom(s, <<>>)

tokenize(line) ==
    LET lowered == [i \in 1..Len(Strip(line)) |-> Lower(Strip(line)[i])]
    IN  SelectSeq(Split(lowered), LAMBDA word : word # <<>>)

\* Whether a syllabified word is kept among the cues.
keep_syllables(s) == s # <<"#", "#">>

\* The loop of syllabify_line over the words that are left, on cache c:
\* the list of kept syllabifications, the cache afterwards, the converter
\* and findall invocations made, and whether a call raised.

\* The list after one more word: its syllabification r is kept unless it
\* is the empty marker, and the rest of the loop follows.
append_kept(r, rest) ==
    [raised    |-> rest.raised,
     syllables |-> IF keep_syllables(r.value)
                   THEN <<r.value>> \o rest.syllables
                   ELSE rest.syllables,
     cache     |-> rest.cache,
     converts  |-> r.converts + rest.converts,
     matches   |-> r.matches + rest.matches]

RECURSIVE syllabify_words(_, _, _, _, _)
RECURSIVE syllabify_rest(_, _, _, _, _)

syllabify_words(c, words, converter, pattern, add_boundaries) ==
    IF words = <<>>
    THEN [raised |-> FALSE, syllables |-> <<>>, cache |-> c,
          converts |-> 0, matches |-> 0]
    ELSE syllabify_rest(syllabify(c, "keyword", words[1], converter, pattern, add_boundaries),
                        Tail(words), converter, pattern, add_boundaries)

\* The loop after the call r for the first word: a call that raised ends it.
syllabify_rest(r, words, converter, pattern, add_boundaries) ==
    IF r.raised
    THEN [raised |-> TRUE, syllables |-> <<>>, cache |-> r.cache,
          converts |-> r.converts, matches |-> r.matches]
    ELSE append_kept(r, syllabify_words(r.cache, words, converter, pattern,
                                        add_boundaries))

\* syllabify_line on cache c.  The value is the pair <<cues, outcomes>>
\* when as_event holds and the list of syllabified words otherwise; the
\* two lists the event is joined from are kept beside it.
syllabify_line(c, line, converter, pattern, not_symbol_pattern, add_boundaries, as_event) ==
    LET words == tokenize(sub_space(not_symbol_pattern, line))
        r == syllabify_words(c, words, converter, pattern, add_boundaries)
    IN  [raised   |-> r.raised,
         value    |-> IF r.raised THEN <<>>
                      ELSE IF as_event
                      THEN <<Join(r.syllables, <<"_">>),
                             Join(words, <<"_">>)>>
                      ELSE r.syllables,
         syllables |-> r.syllables,
         words    |-> words,
         cache    |-> r.cache,
         converts |-> r.converts,
         matches  |-> r.matches]

-----------------------------------------------------------------------------
(* Inputs *)

\* A sample of each inventory: a consonant, a vowel, the two halves of a
\* multi-character nucleus, and symbols outside the inventory.
SampleEn  == {"t", "j", "i", "a", "u0279", "u0329"}
SamplePol == {"t", "a", "u025b", "u0303", "|"}
SampleEx  == {"t", "a", "j"}

\* Strings of 1..n consonant+vowel pairs.
RECURSIVE CVStrings(_, _, _)
CVStrings(C, V, n) ==
    IF n = 0 THEN {}
    ELSE LET pairs == {<<c, v>> : c \in C, v \in V}
         IN  pairs \cup {s \o p : s \in CVStrings(C, V, n - 1), p \in pairs}

\* <<word, converter, pattern>> of the calls of syllabify that are drawn.
WordInputs ==
    (SeqsUpTo(SampleEn, MaxLen) \X {"english_to_ipa"} \X {"regex_en_ipa"})
    \cup (SeqsUpTo(SamplePol, MaxLen) \X {"polish_to_ipa"} \X {"regex_pol_ipa"})
    \cup ((SeqsUpTo(SampleEx, MaxLen) \cup CVStrings({"p", "t"}, {"a", "o"}, MaxPairs))
            \X {"identity"} \X {"regex_example"})

\* The calls repeated against one cache.
CacheInputs ==
    { <<"t", "i", "t", "i">>, <<"t">>, <<>>, <<"q">> }
        \X {"english_to_ipa", "identity"} \X {"regex_en_ipa"}

\* Lines handed to syllabify_line, and its other arguments.
SampleLine == {"a", "s", "T", "u0141", " ", "!", "\n"}
LineInputs ==
    SeqsUpTo(SampleLine, MaxLineLen)
        \X { <<"english_to_ipa", "regex_en_ipa">>, <<"identity", "regex_example">> }
        \X {"[^a-z ]", "[^ENGLISH ]", "[^POLISH ]"}

-----------------------------------------------------------------------------
(* The calling process *)

NoCall == [op |-> "none"]

WordInit ==
    /\ cache = <<>>
    /\ nConvert = 0
    /\ nMatch = 0
    /\ call = NoCall
    /\ nCalls = 0
    /\ returned = <<>>

\* A call syllabify(word, ipa_converter, syllable_pattern, add_boundaries),
\* written in one of the forms; the default of add_boundaries is True.
Syllabify(form, word, converter, pattern, add_boundaries) ==
    \E r \in {syllabify(cache, form, word, converter, pattern, add_boundaries)} :
        /\ form = "default" => add_boundaries
        /\ cache' = r.cache
        /\ nConvert' = nConvert + r.converts
        /\ nMatch' = nMatch + r.matches
        /\ nCalls' = nCalls + 1
        /\ returned' = IF r.raised THEN returned
                       ELSE returned @@ (<<word, converter, pattern,
                                           add_boundaries>> :> r.value)
        /\ call' = [op |-> "syllabify", form |-> form,
                    word |-> word, converter |-> converter,
                    pattern |-> pattern, add_boundaries |-> add_boundaries,
                    string |-> ipa_converter(converter, word),
                    raised |-> r.raised, value |-> r.value, hit |-> r.hit,
                    converts |-> r.converts, matches |-> r.matches]
        /\ UNCHANGED pipeVars

\* A call syllabify_line(line, ...).
SyllabifyLine(line, converter, pattern, not_symbol_pattern, add_boundaries, as_event) ==
    \E r \in {syllabify_line(cache, line, converter, pattern,
                               not_symbol_pattern, add_boundaries, as_event)} :
        /\ cache' = r.cache
        /\ nConvert' = nConvert + r.converts
        /\ nMatch' = nMatch + r.matches
        /\ nCalls' = nCalls + 1
        /\ UNCHANGED returned
        /\ call' = [op |-> "syllabify_line", line |-> line,
                    converter |-> converter, pattern |-> pattern,
                    not_symbol_pattern |-> not_symbol_pattern,
                    add_boundaries |-> add_boundaries, as_event |-> as_event,
                    raised |-> r.raised, value |-> r.value,
                    syllables |-> r.syllables, words |-> r.words]
        /\ UNCHANGED pipeVars

\* One call of syllabify in a fresh process, over the drawn inputs.
WordNext ==
    /\ nCalls = 0
    /\ \E in \in WordInputs, add_boundaries \in BOOLEAN :
          Syllabify("keyword", in[1], in[2], in[3], add_boundaries)

\* Up to MaxCalls calls of syllabify against the same cache.
CacheNext ==
    /\ nCalls < MaxCalls
    /\ \E in \in CacheInputs, form \in CallForms, add_boundaries \in BOOLEAN :
          Syllabify(form, in[1], in[2], in[3], add_boundaries)

\* One call of syllabify_line in a fresh process.
LineNext ==
    /\ nCalls = 0
    /\ \E in \in LineInputs, add_boundaries \in BOOLEAN, as_event \in BOOLEAN :
          SyllabifyLine(in[1], in[2][1], in[2][2], in[3], add_boundaries, as_event)

\* No corpus run is under way.
PipeIdle ==
    /\ numcores = 1
    /\ chunksize = 1
    /\ corpus = <<>>
    /\ pc = "idle"
    /\ nRead = 0
    /\ batch = <<>>
    /\ tasks = <<>>
    /\ workers = <<0>>
    /\ wcache = << <<>> >>
    /\ cur = 0
    /\ off = 0
    /\ out = <<>>
    /\ outfile = <<>>
    /\ outOfOrder = FALSE
    /\ crashed = FALSE

Init == WordInit /\ PipeIdle
Spec == Init /\ [][WordNext]_vars
CacheSpec == Init /\ [][CacheNext]_vars
LineSpec == Init /\ [][LineNext]_vars

-----------------------------------------------------------------------------
(* Properties of syllabify *)

\* The last call was a call of syllabify that returned.
SyllabifyReturned == call.op = "syllabify" /\ ~call.raised

RECURSIVE Count(_, _)
Count(s, ch) ==
    IF s = <<>> THEN 0
    ELSE (IF s[1] = ch THEN 1 ELSE 0) + Count(Tail(s), ch)

\* A result without its separators and boundary markers.
Stripped(v) == SelectSeq(v, LAMBDA ch : ch \notin {"_", "#"})

Wrap(syllables, add_boundaries) ==
    IF add_boundaries THEN <<"#">> \o syllables \o <<"#">> ELSE syllables

\* The kind of every character of s under the inventory of P: "N" inside a
\* nucleus (a diphthong where one starts, else a vowel), "C" a consonant,
\* "X" a symbol outside the inventory.
RECURSIVE Kinds(_, _)
Kinds(P, s) ==
    IF s = <<>> THEN <<>>
    ELSE IF \E a \in 1..Len(P.diphtongues) : StartsAt(P.diphtongues[a], s, 0)
    THEN LET a == CHOOSE a \in 1..Len(P.diphtongues) :
                      StartsAt(P.diphtongues[a], s, 0)
             n == Len(P.diphtongues[a])
         IN  [i \in 1..n |-> "N"] \o Kinds(P, Slice(s, n, Len(s)))
    ELSE IF s[1] \in P.vowels THEN <<"N">> \o Kinds(P, Tail(s))
    ELSE IF s[1] \in P.consonants THEN <<"C">> \o Kinds(P, Tail(s))
    ELSE <<"X">> \o Kinds(P, Tail(s))

\* s is a string over the vowels, diphthongs and consonants of P.
WellFormed(P, s) == \A i \in 1..Len(s) : Kinds(P, s)[i] # "X"

\* The positions of the consonants of s that lie between two nuclei.
Interior(P, s) ==
    LET k == Kinds(P, s)
    IN  { i \in 1..Len(s) :
            /\ k[i] = "C"
            /\ \E j \in 1..(i - 1) : k[j] = "N"
            /\ \E j \in (i + 1)..Len(s) : k[j] = "N" }

\* s is n >= 1 pairs of one consonant and one vowel of P.
IsCV(P, s) ==
    /\ Len(s) >= 2
    /\ Len(s) % 2 = 0
    /\ \A i \in 1..Len(s) :
          IF i % 2 = 1 THEN s[i] \in P.consonants \ P.vowels
                       ELSE s[i] \in P.vowels \ P.consonants

PairsOf(s) == [i \in 1..(Len(s) \div 2) |-> <<s[2 * i - 1], s[2 * i]>>]

\* Each pair together with the consonant that opens the next pair.
Overlapped(s) ==
    [i \in 1..(Len(s) \div 2) |->
        IF 2 * i < Len(s) THEN <<s[2 * i - 1], s[2 * i], s[2 * i + 1]>>
                          ELSE <<s[2 * i - 1], s[2 * i]>>]

patato == <<"p", "a", "t", "a", "t", "o">>

\* C4 as stated: for a phonemic string of n >= 1 consonant+vowel pairs the
\* syllable matcher returns exactly the n pairs in order and syllabify
\* joins them with "_", wrapped in "#" when add_boundaries holds.
C4_PairsAsStated ==
    (SyllabifyReturned /\ IsCV(syllable_pattern(call.pattern), call.string)) =>
        /\ findall_syllables(syllable_pattern(call.pattern), call.string)
              = PairsOf(call.string)
        /\ call.value = Wrap(Join(PairsOf(call.string), <<"_">>),
                             call.add_boundaries)

\* C4 amended: for a phonemic string of n >= 1 consonant+vowel pairs the
\* syllable matcher returns n matches in order, the i-th being the i-th
\* pair followed by the consonant of the next pair and the last being the
\* last pair alone; syllabify joins them with "_" and wraps them in "#":
\* "patato" gives #pat_tat_to#.
C4_OverlappingPairs ==
    (SyllabifyReturned /\ IsCV(syllable_pattern(call.pattern), call.string)) =>
        /\ findall_syllables(syllable_pattern(call.pattern), call.string)
              = Overlapped(call.string)
        /\ call.value = Wrap(Join(Overlapped(call.string), <<"_">>),
                             call.add_boundaries)
        /\ (call.string = patato /\ call.add_boundaries) =>
              call.value = <<"#", "p", "a", "t", "_", "t", "a", "t", "_",
                             "t", "o", "#">>

C4_Witness ==
    /\ SyllabifyReturned
    /\ call.pattern = "regex_example"
    /\ call.string = patato
    /\ call.add_boundaries
    /\ call.value = <<"#", "p", "a", "t", "_", "t", "a", "t", "_", "t", "o", "#">>

\* C5 as stated: for every phonemic string the result without "_" and "#"
\* has exactly the characters of the string, each as often as the string.
C5_SameMultisetAsStated ==
    (SyllabifyReturned /\ WellFormed(syllable_pattern(call.pattern), call.string)) =>
        \A ch \in (Range(call.string) \cup Range(call.value)) \ {"_", "#"} :
            Count(Stripped(call.value), ch) = Count(call.string, ch)

\* C5 amended: for every phonemic string over the inventory the result
\* without "_" and "#" drops no character: it has every nucleus character
\* and every consonant before the first or after the last nucleus as often
\* as the string has it, and every consonant between two nuclei twice.
C5_InteriorConsonantsTwice ==
    (SyllabifyReturned /\ WellFormed(syllable_pattern(call.pattern), call.string)) =>
        \A ch \in (Range(call.string) \cup Range(call.value)) \ {"_", "#"} :
            Count(Stripped(call.value), ch)
              = Count(call.string, ch)
                + Cardinality({i \in Interior(syllable_pattern(call.pattern),
                                              call.string) :
                                  call.string[i] = ch})

C5_Witness ==
    /\ SyllabifyReturned
    /\ WellFormed(syllable_pattern(call.pattern), call.string)
    /\ Interior(syllable_pattern(call.pattern), call.string) # {}
    /\ Len(Stripped(call.value)) > Len(call.string)

\* s has no vowel and no diphthong of P.
NoNucleus(P, s) ==
    /\ \A i \in 1..Len(s) : s[i] \notin P.vowels
    /\ \A a \in 1..Len(P.diphtongues) :
          \A q \in 0..Len(s) : ~StartsAt(P.diphtongues[a], s, q)

\* C6 as stated: for every word whose phonemic string has no vowel and no
\* diphthong, syllabify with add_boundaries=False returns the phonemic
\* string whole and never the empty string.
C6_FallbackAsStated ==
    (/\ SyllabifyReturned
     /\ ~call.add_boundaries
     /\ NoNucleus(syllable_pattern(call.pattern), call.string)) =>
        /\ call.value = call.string
        /\ call.value # <<>>

\* C6 amended: for every word whose phonemic string is a non-empty run of
\* consonants of the inventory, the syllable matcher finds nothing and
\* syllabify with add_boundaries=False returns the phonemic string whole,
\* which is not the empty string.
C6_ConsonantRunFallback ==
    (/\ SyllabifyReturned
     /\ ~call.add_boundaries
     /\ call.string # <<>>
     /\ \A i \in 1..Len(call.string) :
           call.string[i] \in syllable_pattern(call.pattern).consonants) =>
        /\ findall_syllables(syllable_pattern(call.pattern), call.string) = <<>>
        /\ call.value = call.string
        /\ call.value # <<>>

C6_Witness ==
    /\ SyllabifyReturned
    /\ ~call.add_boundaries
    /\ Len(call.string) >= 2
    /\ \A i \in 1..Len(call.string) :
          call.string[i] \in syllable_pattern(call.pattern).consonants
    /\ call.value = call.string

\* The arguments of a call of syllabify, and the cache key of the call.
ArgumentsOf(c) == <<c.word, c.converter, c.pattern, c.add_boundaries>>
KeyOf(c) == Key(c.form, c.word, c.converter, c.pattern, c.add_boundaries)

\* C7: within one process, a call of syllabify whose arguments are those of
\* an earlier call that returned gives back the same string and invokes
\* neither the converter nor a matcher; the cache only grows, and an entry
\* once stored is never removed or changed.
C7_MemoizedByArguments ==
    [][ /\ \A k \in DOMAIN cache : k \in DOMAIN cache' /\ cache'[k] = cache[k]
        /\ (/\ nCalls' = nCalls + 1
            /\ call'.op = "syllabify"
            /\ ArgumentsOf(call') \in DOMAIN returned) =>
              /\ ~call'.raised
              /\ call'.value = returned[ArgumentsOf(call')]
              /\ nConvert' = nConvert
              /\ nMatch' = nMatch ]_vars

\* What the wrapper does give: the cache only grows, a call written as an
\* earlier call that returned was written, with the same arguments, gives
\* back the stored string and invokes neither the converter nor a matcher,
\* and a call whose arguments returned before returns the same string.
MemoizedByKey ==
    [][ /\ \A k \in DOMAIN cache : k \in DOMAIN cache' /\ cache'[k] = cache[k]
        /\ (/\ nCalls' = nCalls + 1
            /\ call'.op = "syllabify") =>
              /\ KeyOf(call') \in DOMAIN cache =>
                    /\ ~call'.raised
                    /\ call'.value = cache[KeyOf(call')]
                    /\ nConvert' = nConvert
                    /\ nMatch' = nMatch
              /\ ArgumentsOf(call') \in DOMAIN returned =>
                    /\ ~call'.raised
                    /\ call'.value = returned[ArgumentsOf(call')] ]_vars

\* The same arguments in two forms: the second call is a miss.
SecondFormMisses ==
    /\ call.op = "syllabify"
    /\ ~call.hit
    /\ ArgumentsOf(call) \in DOMAIN returned
    /\ Cardinality({k \in DOMAIN cache : k[2] = call.word}) >= 2
    /\ nConvert >= 2

-----------------------------------------------------------------------------
(* Properties of syllabify_line *)

EventReturned == call.op = "syllabify_line" /\ ~call.raised /\ call.as_event

\* C2: in the event of any line the entries joined into cues and the words
\* joined into outcomes are aligned: as many of the one as of the other,
\* the i-th cue entry being the syllabification of the i-th outcome word.
C2_CuesAlignedWithOutcomes ==
    EventReturned =>
        /\ call.value = <<Join(call.syllables, <<"_">>), Join(call.words, <<"_">>)>>
        /\ Len(call.syllables) = Len(call.words)
        /\ \A i \in 1..Len(call.syllables) :
              call.syllables[i] = syllabify_body(call.words[i], call.converter,
                                                 call.pattern, call.add_boundaries)

-----------------------------------------------------------------------------
(* The corpus pipeline: syllabify_corpus_generator driven by the loop of   *)
(* syllabify_corpus.                                                       *)

\* The lines a corpus is made of: an empty line, a line of forbidden
\* symbols only, a line with a word of the inventory and a word outside it,
\* and a line with a word the transcriber raises on.
CorpusLines ==
    { <<"\n">>, <<"!", "\n">>, <<"t", "a", " ", "s", "\n">>, <<"q", "\n">> }

\* The arguments syllabify_corpus is run with.
RunConverter == "identity"
RunPattern == "regex_example"
RunNotSymbol == "[^a-z ]"
RunBoundaries == TRUE

\* _syllabify: syllabify_line with every argument but the line filled in;
\* syllabify_corpus asks for events.
partial_syllabify(c, line) ==
    syllabify_line(c, line, RunConverter, RunPattern, RunNotSymbol, RunBoundaries, TRUE)

\* The size of the outer batches chunk() cuts the corpus into.
BatchSizePlusOne(cores, size) == size * cores + 1

BatchSize(cores, size) == size * cores

\* Pool._get_tasks: the batch cut into sub-chunks of chunksize lines, the
\* last one possibly shorter.
RECURSIVE get_tasks(_, _)
get_tasks(lines, size) ==
    IF lines = <<>> THEN <<>>
    ELSE IF Len(lines) <= size
    THEN << [lines |-> lines, state |-> "queued", value |-> <<>>] >>
    ELSE << [lines |-> SubSeq(lines, 1, size), state |-> "queued", value |-> <<>>] >>
         \o get_tasks(SubSeq(lines, size + 1, Len(lines)), size)

\* mapstar in a worker with cache c: _syllabify on the lines of a sub-chunk
\* in turn.  A line that raises ends the sub-chunk; the results before it
\* are then discarded by the pool together with the sub-chunk.
append_result(r, rest) ==
    [raised |-> rest.raised,
     value  |-> IF rest.raised THEN <<>> ELSE <<r.value>> \o rest.value,
     cache  |-> rest.cache]

RECURSIVE mapstar(_, _)
RECURSIVE mapstar_rest(_, _)

mapstar(c, lines) ==
    IF lines = <<>> THEN [raised |-> FALSE, value |-> <<>>, cache |-> c]
    ELSE mapstar_rest(partial_syllabify(c, lines[1]), Tail(lines))

\* A variant that swallows the exception of a line and goes on with the
\* lines after it.
mapstar_skip_raising(r, lines) ==
    IF r.raised THEN mapstar(r.cache, lines)
    ELSE append_result(r, mapstar(r.cache, lines))

mapstar_rest(r, lines) ==
    IF r.raised THEN [raised |-> TRUE, value |-> <<>>, cache |-> r.cache]
    ELSE append_result(r, mapstar(r.cache, lines))

\* A sub-chunk that ended, with its results or with the exception raised.
Ended(task) == task.state \in {"done", "failed", "yielded"}

\* A variant that hands out results in completion order: the first
\* sub-chunk that ended and has not been handed out.
imap_unordered_next(ts) ==
    IF \E i \in 1..Len(ts) : ts[i].state \in {"done", "failed"}
    THEN CHOOSE i \in 1..Len(ts) :
            /\ ts[i].state \in {"done", "failed"}
            /\ \A j \in 1..(i - 1) : ts[j].state \notin {"done", "failed"}
    ELSE 0

\* IMapIterator.next: the sub-chunk handed out next is the first one not
\* handed out yet, and only once it has ended; 0 while the consumer waits.
imap_next(ts) ==
    IF \E i \in 1..Len(ts) : ts[i].state # "yielded"
    THEN LET i == CHOOSE i \in 1..Len(ts) :
                      /\ ts[i].state # "yielded"
                      /\ \A j \in 1..(i - 1) : ts[j].state = "yielded"
         IN  IF ts[i].state \in {"done", "failed"} THEN i ELSE 0
    ELSE 0

\* Whether handing out the sub-chunk re-raises the worker's exception.
item_raises(task) == task.state = "failed"

\* The line syllabify_corpus writes for an event.
event_line(event) == event[1] \o <<"\t">> \o event[2] \o <<"\n">>

\* syllabify_corpus is called in a process that has not called syllabify:
\* the corpus is opened and Pool(numcores) forks the workers.
PipeInit ==
    /\ WordInit
    /\ numcores \in 1..MaxCores
    /\ chunksize \in 1..MaxChunk
    /\ corpus \in SeqsUpTo(CorpusLines, MaxLines)
    /\ pc = "reading"
    /\ nRead = 0
    /\ batch = <<>>
    /\ tasks = <<>>
    /\ workers = [w \in 1..numcores |-> 0]
    /\ wcache = [w \in 1..numcores |-> <<>>]
    /\ cur = 0
    /\ off = 0
    /\ out = <<>>
    /\ outfile = <<>>
    /\ outOfOrder = FALSE
    /\ crashed = FALSE

\* chunk(): islice takes one more line of the corpus into the batch.
ReadLine ==
    /\ pc = "reading"
    /\ Len(batch) < BatchSize(numcores, chunksize)
    /\ nRead < Len(corpus)
    /\ batch' = Append(batch, corpus[nRead + 1])
    /\ nRead' = nRead + 1
    /\ UNCHANGED <<wordVars, numcores, chunksize, corpus, pc, tasks, workers, wcache,
                   cur, off, out, outfile, outOfOrder, crashed>>

\* The batch is full or the corpus is exhausted: pool.imap gets the batch.
Dispatch ==
    /\ pc = "reading"
    /\ batch # <<>>
    /\ Len(batch) = BatchSize(numcores, chunksize) \/ nRead = Len(corpus)
    /\ tasks' = get_tasks(batch, chunksize)
    /\ pc' = "yielding"
    /\ UNCHANGED <<wordVars, numcores, chunksize, corpus, nRead, batch, workers, wcache,
                   cur, off, out, outfile, outOfOrder, crashed>>

\* chunk() returns the empty list: the loop ends and the pool is left.
EndOfCorpus ==
    /\ pc = "reading"
    /\ batch = <<>>
    /\ nRead = Len(corpus)
    /\ pc' = "done"
    /\ UNCHANGED <<wordVars, numcores, chunksize, corpus, nRead, batch, tasks, workers,
                   wcache, cur, off, out, outfile, outOfOrder, crashed>>

\* An idle worker takes the sub-chunk at the head of the task queue.
WorkerTake(w) ==
    /\ pc = "yielding"
    /\ workers[w] = 0
    /\ \E t \in 1..Len(tasks) :
          /\ tasks[t].state = "queued"
          /\ \A u \in 1..(t - 1) : tasks[u].state # "queued"
          /\ tasks' = [tasks EXCEPT ![t].state = "running"]
          /\ workers' = [workers EXCEPT ![w] = t]
    /\ UNCHANGED <<wordVars, numcores, chunksize, corpus, pc, nRead, batch, wcache,
                   cur, off, out, outfile, outOfOrder, crashed>>

\* A worker ends its sub-chunk and the pool records the outcome.
WorkerFinish(w) ==
    /\ pc = "yielding"
    /\ workers[w] # 0
    /\ \E r \in {mapstar(wcache[w], tasks[workers[w]].lines)} :
          /\ tasks' = [tasks EXCEPT ![workers[w]] =
                          [lines |-> @.lines,
                           state |-> IF r.raised THEN "failed" ELSE "done",
                           value |-> r.value]]
          /\ wcache' = [wcache EXCEPT ![w] = r.cache]
    /\ workers' = [workers EXCEPT ![w] = 0]
    /\ outOfOrder' = (outOfOrder \/ \E u \in 1..(workers[w] - 1) : ~Ended(tasks[u]))
    /\ UNCHANGED <<wordVars, numcores, chunksize, corpus, pc, nRead, batch, cur, off,
                   out, outfile, crashed>>

\* A worker process dies while it holds a sub-chunk.  The pool starts a
\* new process in its place, forked from the parent; nothing is recorded
\* for the sub-chunk.
WorkerCrash(w) ==
    /\ pc = "yielding"
    /\ workers[w] # 0
    /\ tasks' = [tasks EXCEPT ![workers[w]].state = "lost"]
    /\ workers' = [workers EXCEPT ![w] = 0]
    /\ wcache' = [wcache EXCEPT ![w] = cache]
    /\ crashed' = TRUE
    /\ UNCHANGED <<wordVars, numcores, chunksize, corpus, pc, nRead, batch, cur, off,
                   out, outfile, outOfOrder>>

\* The generator yields the next result and syllabify_corpus writes it.
YieldResult ==
    /\ pc = "yielding"
    /\ \E t \in {IF cur # 0 THEN cur ELSE imap_next(tasks)} :
          /\ t # 0
          /\ cur # 0 \/ ~item_raises(tasks[t])
          /\ off < Len(tasks[t].value)
          /\ out' = Append(out, tasks[t].value[off + 1])
          /\ outfile' = Append(outfile, event_line(tasks[t].value[off + 1]))
          /\ IF off + 1 = Len(tasks[t].value)
             THEN /\ tasks' = [tasks EXCEPT ![t].state = "yielded"]
                  /\ cur' = 0
                  /\ off' = 0
             ELSE /\ tasks' = tasks
                  /\ cur' = t
                  /\ off' = off + 1
    /\ UNCHANGED <<wordVars, numcores, chunksize, corpus, pc, nRead, batch, workers,
                   wcache, outOfOrder, crashed>>

\* The sub-chunk due next raised in its worker: the exception is raised
\* again in the generator, the pool is terminated, the run is over.
RaiseFailure ==
    /\ pc = "yielding"
    /\ cur = 0
    /\ imap_next(tasks) # 0
    /\ item_raises(tasks[imap_next(tasks)])
    /\ pc' = "failed"
    /\ workers' = [w \in 1..numcores |-> 0]
    /\ UNCHANGED <<wordVars, numcores, chunksize, corpus, nRead, batch, tasks, wcache,
                   cur, off, out, outfile, outOfOrder, crashed>>

\* Every result of the batch has been yielded: the loop goes on to read.
IterationEnds ==
    /\ pc = "yielding"
    /\ cur = 0
    /\ \A t \in 1..Len(tasks) : tasks[t].state = "yielded"
    /\ pc' = "reading"
    /\ batch' = <<>>
    /\ tasks' = <<>>
    /\ UNCHANGED <<wordVars, numcores, chunksize, corpus, nRead, workers, wcache, cur,
                   off, out, outfile, outOfOrder, crashed>>

PipeNext ==
    \/ ReadLine
    \/ Dispatch
    \/ EndOfCorpus
    \/ \E w \in 1..numcores : WorkerTake(w)
    \/ \E w \in 1..numcores : WorkerFinish(w)
    \/ \E w \in 1..numcores : WorkerCrash(w)
    \/ YieldResult
    \/ RaiseFailure
    \/ IterationEnds

PipeSpec == PipeInit /\ [][PipeNext]_vars

-----------------------------------------------------------------------------
(* Properties of the corpus pipeline *)

\* What processing the line alone, in one thread, gives.
Sequential == [line \in CorpusLines |-> partial_syllabify(<<>>, line)]
LineRaises(line) == Sequential[line].raised
LineResult(line) == Sequential[line].value

\* The index of the first line of the corpus from the i-th on whose
\* processing raises, or one past the end of the corpus.
RECURSIVE FirstFailureFrom(_)
FirstFailureFrom(i) ==
    IF i > Len(corpus) THEN i
    ELSE IF LineRaises(corpus[i]) THEN i
    ELSE FirstFailureFrom(i + 1)

FirstFailure == FirstFailureFrom(1)

\* Every result yielded so far is the result of the line at its position.
InInputPosition ==
    /\ Len(out) <= Len(corpus)
    /\ \A i \in 1..Len(out) : out[i] = LineResult(corpus[i])

\* C1: for every corpus of N lines, every numcores >= 1 and chunksize >= 1,
\* the generator yields exactly N results and the i-th is the result of
\* syllabify_line on the i-th line, in whatever order the workers end their
\* sub-chunks: the output is the one of sequential processing.
C1_OrderPreserved ==
    /\ InInputPosition
    /\ pc = "done" => Len(out) = Len(corpus)

C1_Witness ==
    /\ pc = "done"
    /\ outOfOrder
    /\ numcores >= 2
    /\ Len(corpus) > BatchSize(numcores, chunksize)
    /\ Len(corpus) % BatchSize(numcores, chunksize) # 0
    /\ Len(out) = Len(corpus)
    /\ \E i, j \in 1..Len(out) : out[i] # out[j]

\* The words of a line that survive cleaning and tokenizing.
SurvivingWords(line) == tokenize(sub_space(RunNotSymbol, line))

\* C3: a line with no surviving word gives an event with empty cues and
\* outcomes and is left out of the event file: the file has one line for
\* every yielded result of a line with a surviving word, in order, and no
\* blank tab-separated line.
C3_EmptyEventsOmitted ==
    /\ \A i \in 1..Len(out) :
          SurvivingWords(corpus[i]) = <<>> => out[i] = << <<>>, <<>> >>
    /\ \E kept \in {SelectSeq(out, LAMBDA e : e # << <<>>, <<>> >>)} :
          outfile = [i \in 1..Len(kept) |-> event_line(kept[i])]
    /\ Len(outfile) =
          Cardinality({i \in 1..Len(out) : SurvivingWords(corpus[i]) # <<>>})

\* C8: the corpus is read in outer batches of at most chunksize*numcores
\* lines, handed to the pool in sub-chunks of at most chunksize lines, and
\* no line of the next batch is read before every result of the current
\* one has been yielded: at most chunksize*numcores lines are read and not
\* yet yielded.
C8_OneBatchResident ==
    /\ nRead - Len(out) <= chunksize * numcores
    /\ Len(batch) <= chunksize * numcores
    /\ \A t \in 1..Len(tasks) : Len(tasks[t].lines) <= chunksize
    /\ pc = "reading" => nRead - Len(out) = Len(batch)

C8_Witness ==
    /\ pc = "yielding"
    /\ chunksize * numcores >= 2
    /\ Len(out) >= chunksize * numcores
    /\ nRead - Len(out) = chunksize * numcores
    /\ Len(tasks) = numcores

\* C9: when the processing of a line raises, the failure reaches the
\* consumer and the run is over.  No result is substituted or skipped: the
\* results yielded are those of the lines before the first failing line,
\* each at its input position; the run does not end normally; and once the
\* exception is raised nothing more is yielded.
C9_FailurePropagates ==
    \E first \in {FirstFailure} :
        /\ Len(out) < first
        /\ \A i \in 1..Len(out) : out[i] = LineResult(corpus[i])
        /\ pc = "done" => first > Len(corpus)
        /\ pc = "failed" =>
              /\ first <= Len(corpus)
              /\ first <= Len(out) + chunksize
              /\ ~ENABLED PipeNext

C9_Witness ==
    /\ pc = "failed"
    /\ outOfOrder
    /\ Len(out) >= 1
    /\ FirstFailure > Len(out) + 1

\* C10: when a worker dies holding a sub-chunk the pipeline notices and
\* the run ends in a failure: after a crash the run has either failed or
\* can still take a step, so the consumer never waits for ever; and the
\* lines of the lost sub-chunk are not passed over.
C10_CrashEndsInFailure ==
    crashed =>
        /\ pc = "failed" \/ ENABLED PipeNext
        /\ InInputPosition

====
